---- MODULE Spec2Model ----
(***************************************************************************)
(* Model of fastapi_rest_framework/routers/json_api_router.py: the         *)
(* JSON:API router's include parsing (get_resource), compound-document     *)
(* assembly (build_response) and schema closure (get_included_schema).     *)
(*                                                                         *)
(* Strings are sequences of one-character strings.  Python's dict is an    *)
(* insertion-ordered sequence of key/value entries.                        *)
(***************************************************************************)
EXTENDS Integers, Sequences, FiniteSets, TLC

VARIABLES
    relationships,      \* resource_class.get_relationships() of every schema
    included_schema,    \* result of get_included_schema(), Unset before the call
    request,            \* request.query_params
    rows,               \* build_response's `rows` argument: a row or a list of rows
    pc,                 \* position of the request in the router
    inclusions,         \* resource.inclusions, set by get_resource
    many,               \* build_response local `many`
    rowlist,            \* build_response local `rows` after line 117
    ri,                 \* index of `row` in the loop of line 119
    ii,                 \* index of `inclusion` in the loop of line 120
    included_resources, \* build_response local dict, line 114
    first_built,        \* history: the first JAResource built for each key
    last_built,         \* history: the last JAResource built for each key
    seen_again,         \* history: a call returned a key an earlier call had
    calls,              \* history: number of get_related calls of this request
    response            \* value returned by build_response, Unset before

vars == <<relationships, included_schema, request, rows, pc, inclusions, many,
          rowlist, ri, ii, included_resources, first_built, last_built,
          seen_again, calls, response>>

-----------------------------------------------------------------------------
(* Bounds of the model.                                                    *)

\* longest `include` query string
MaxLen == 3
\* longest list of rows and largest row id
MaxRows == 2
\* most selected objects one get_related call returns (arbitrary collaborator)
MaxSel == 2
\* most relationships declared in the whole relationship graph
MaxEdges == 2

-----------------------------------------------------------------------------
(* Values.                                                                 *)

\* Python's None, and the marker of a variable not assigned yet.
None == <<"None">>
Unset == <<"Unset">>

\* Characters of an include string: two word characters (\w), the dot, the
\* comma, and one character outside [\w.,].
WordChars == {"a", "b"}
Alphabet == WordChars \cup {".", ",", "-"}

Strings == UNION {[1..n -> Alphabet] : n \in 0..MaxLen}

\* str(obj.id): pydantic coerces the id to the `id: str` field of JAResource.
DigitOf == <<"0", "1", "2", "3", "4", "5", "6", "7", "8", "9">>

RECURSIVE str(_)
str(n) == IF n < 10 THEN DigitOf[n + 1]
          ELSE str(n \div 10) \o DigitOf[(n % 10) + 1]

-----------------------------------------------------------------------------
(* Python built-ins used by the router.                                    *)

\* s.split(sep) for a one-character sep: the pieces between the separators,
\* empty pieces included.
RECURSIVE split(_, _)
split(s, sep) ==
    IF \E i \in 1..Len(s) : s[i] = sep
    THEN LET i == CHOOSE k \in 1..Len(s) :
                      s[k] = sep /\ \A j \in 1..(k - 1) : s[j] # sep
         IN <<SubSeq(s, 1, i - 1)>> \o split(SubSeq(s, i + 1, Len(s)), sep)
    ELSE <<s>>

\* bool(v) of an optional string: None and "" are falsy.
Truthy(v) == v # None /\ v # <<>>

\* query_params.get(key): query_params is a set of <<key, value>> pairs.
QueryGet(query_params, key) ==
    IF \E p \in query_params : p[1] = key
    THEN (CHOOSE p \in query_params : p[1] = key)[2]
    ELSE None

\* Mutant: the key is deleted and stored again, which moves it to the end.
DictSet_reinsert(d, key, value) ==
    LET Other(e) == e.key # key
    IN Append(SelectSeq(d, Other), [key |-> key, value |-> value])

\* Mutant: a list that is appended to, not a dict.
DictSet_append(d, key, value) == Append(d, [key |-> key, value |-> value])

\* Mutant: d.setdefault(key, value), which keeps the value already stored.
DictSet_setdefault(d, key, value) ==
    IF \E i \in 1..Len(d) : d[i].key = key
    THEN d
    ELSE Append(d, [key |-> key, value |-> value])

\* d[key] = value on an insertion-ordered dict: an existing key keeps its
\* place and takes the new value, a new key goes to the end.
DictSet(d, key, value) ==
    IF \E i \in 1..Len(d) : d[i].key = key
    THEN [i \in 1..Len(d) |->
             IF d[i].key = key THEN [key |-> key, value |-> value] ELSE d[i]]
    ELSE Append(d, [key |-> key, value |-> value])

Range(f) == {f[x] : x \in DOMAIN f}

\* list(d.values())
DictValues(d) == [i \in 1..Len(d) |-> d[i].value]

DictKeys(d) == {d[i].key : i \in 1..Len(d)}

-----------------------------------------------------------------------------
(* include_query = Query(None, regex=r"^([\w\.]+)(,[\w\.]+)*$")            *)

WordDot == WordChars \cup {"."}

\* The rest of the pattern once the current group has taken one character:
\* more of [\w.], or a comma that opens the next group, or the end.
RECURSIVE MatchRest(_)
MatchRest(s) ==
    IF s = <<>> THEN TRUE
    ELSE IF Head(s) \in WordDot THEN MatchRest(Tail(s))
    ELSE IF Head(s) = ","
         THEN Len(s) >= 2 /\ s[2] \in WordDot /\ MatchRest(SubSeq(s, 3, Len(s)))
    ELSE FALSE

\* The parameter is optional (default None); a given value must match.
include_query(value) ==
    \/ value = None
    \/ /\ value # <<>>
       /\ Head(value) \in WordDot
       /\ MatchRest(Tail(value))

-----------------------------------------------------------------------------
(* JSONAPIResourceRouter.get_resource                                      *)

\* Mutant: query_params.get("include", "") split without the `if include`.
get_resource_unguarded(query_params) ==
    LET got == QueryGet(query_params, "include")
        include == IF got = None THEN <<>> ELSE got
        items == split(include, ",")
    IN [i \in 1..Len(items) |-> split(items[i], ".")]

get_resource(query_params) ==
    LET include == QueryGet(query_params, "include")
    IN IF Truthy(include)
       THEN LET items == split(include, ",")
            IN [i \in 1..Len(items) |-> split(items[i], ".")]
       ELSE <<>>

-----------------------------------------------------------------------------
(* Resources: the registry, rows and the resolved resource.                *)

Schemas == {"Post", "Author", "Publisher"}

\* resource_class.registry[schema].name
ResourceName(schema) ==
    CASE schema = "Post" -> "post"
      [] schema = "Author" -> "author"
      [] schema = "Publisher" -> "publisher"

\* The router's resource_class.
RootSchema == "Post"

Fields == {"v1", "v2"}

\* A row or related object as the persistence layer hands it over.
Row(schema, id, fields) == [schema |-> schema, id |-> id, fields |-> fields]

\* Read.from_orm(obj): the read projection keeps the declared attributes.
from_orm(obj) == [id |-> obj.id, fields |-> obj.fields]

\* JAResource(id=..., type=..., attributes=...); `id: str` coerces the id.
JAResource(id, type, attributes) ==
    [id |-> str(id), type |-> type, attributes |-> attributes]

\* SelectedObj as returned by get_related.
SelectedObj(obj, resource) == [obj |-> obj, resource |-> resource]

-----------------------------------------------------------------------------
(* get_schemas_from_relationships and get_included_schema.                 *)
(* relationships[schema] is the dict of a schema's relationships in        *)
(* declaration order: entries [name, schema, many].                        *)

\* Depth at which the walk is cut off and reported as not terminating: a
\* walk that marks what it visits never nests deeper than the schemas.
RecursionLimit == Cardinality(Schemas) + 1

\* The default `visited=None`, written as a set so that it compares with sets.
NoVisited == {"None"}

\* `visited or set()`: None and the empty set are falsy.
VisitedOrSet(visited) ==
    IF visited = NoVisited \/ visited = {} THEN {} ELSE visited

\* Mutant: `visited.add(schema)` left out.
RECURSIVE WalkRelationships_nomark(_, _, _, _, _, _)
WalkRelationships_nomark(graph, rels, k, visited, schemas, depth) ==
    IF depth > RecursionLimit
    THEN [schemas |-> schemas, visited |-> visited, overflow |-> TRUE]
    ELSE IF k > Len(rels)
    THEN [schemas |-> schemas, visited |-> visited, overflow |-> FALSE]
    ELSE LET schema == rels[k].schema
         IN IF schema \in visited
            THEN WalkRelationships_nomark(graph, rels, k + 1, visited, schemas,
                                          depth)
            ELSE LET sub == WalkRelationships_nomark(graph, graph[schema], 1,
                                VisitedOrSet(visited), <<>>, depth + 1)
                 IN IF sub.overflow
                    THEN [schemas |-> schemas, visited |-> visited,
                          overflow |-> TRUE]
                    ELSE WalkRelationships_nomark(graph, rels, k + 1, visited,
                             (schemas \o <<schema>>) \o sub.schemas, depth)

\* Mutant: the recursion of lines 53-56 left out (direct relationships only).
RECURSIVE WalkRelationships_direct(_, _, _, _, _, _)
WalkRelationships_direct(graph, rels, k, visited, schemas, depth) ==
    IF k > Len(rels)
    THEN [schemas |-> schemas, visited |-> visited, overflow |-> FALSE]
    ELSE IF rels[k].schema \in visited
    THEN WalkRelationships_direct(graph, rels, k + 1, visited, schemas, depth)
    ELSE WalkRelationships_direct(graph, rels, k + 1,
             visited \cup {rels[k].schema}, Append(schemas, rels[k].schema),
             depth)

\* The loop of lines 46-56 from the k-th relationship on.  `visited` is the
\* set object shared with the recursive calls, which add to it.
RECURSIVE WalkRelationships(_, _, _, _, _, _)
WalkRelationships(graph, rels, k, visited, schemas, depth) ==
    IF depth > RecursionLimit
    THEN [schemas |-> schemas, visited |-> visited, overflow |-> TRUE]
    ELSE IF k > Len(rels)
    THEN [schemas |-> schemas, visited |-> visited, overflow |-> FALSE]
    ELSE LET schema == rels[k].schema
         IN IF schema \in visited
            THEN WalkRelationships(graph, rels, k + 1, visited, schemas, depth)
            ELSE LET marked == visited \cup {schema}
                     sub == WalkRelationships(graph, graph[schema], 1,
                                VisitedOrSet(marked), <<>>, depth + 1)
                     \* the callee mutates the caller's set only when it
                     \* kept it (a falsy argument is replaced by a new set)
                     shared == IF VisitedOrSet(marked) = marked
                               THEN sub.visited ELSE marked
                 IN IF sub.overflow
                    THEN [schemas |-> schemas, visited |-> shared,
                          overflow |-> TRUE]
                    ELSE WalkRelationships(graph, rels, k + 1, shared,
                             (schemas \o <<schema>>) \o sub.schemas, depth)

get_schemas_from_relationships(graph, rels, visited) ==
    WalkRelationships(graph, rels, 1, VisitedOrSet(visited), <<>>, 1)

\* The tuple of JAResource[schema, Literal[name]] types; `raised` when the
\* walk did not come back (RecursionError).
get_included_schema(graph, resource_class) ==
    LET walk == get_schemas_from_relationships(graph, graph[resource_class],
                                               NoVisited)
    IN [raised |-> walk.overflow,
        types |-> IF walk.overflow THEN <<>>
                  ELSE [i \in 1..Len(walk.schemas) |->
                           [schema |-> walk.schemas[i],
                            type |-> ResourceName(walk.schemas[i])]]]

-----------------------------------------------------------------------------
(* Resource.get_related (resources/base_resource.py), the persistence      *)
(* collaborator, as the specification describes it: resolve the first      *)
(* segment on the object's resource, then recurse into every selected      *)
(* object with the rest of the path.  An unknown segment selects nothing.  *)

\* The stored objects: every schema holds the ids 1..MaxRows.
StoredIds == 1..MaxRows

StoredObj(schema, id) == Row(schema, id, "v1")

\* The ids a relationship of object `id` leads to: a to-one relationship to
\* the object of the same id, a to-many relationship to every stored object.
LinkedIds(rel, id) ==
    IF rel.many THEN [k \in StoredIds |-> k] ELSE <<id>>

RECURSIVE Flatten(_)
Flatten(seqs) == IF seqs = <<>> THEN <<>> ELSE Head(seqs) \o Flatten(Tail(seqs))

\* Mutant: the last segment is followed once more than the path names it.
RECURSIVE ResolveOverrun(_, _, _, _, _)
ResolveOverrun(graph, resource, obj, inclusion, extra) ==
    IF inclusion = <<>> THEN <<>>
    ELSE LET rels == graph[resource]
             name == Head(inclusion)
             again == Len(inclusion) = 1 /\ extra > 0
         IN IF ~ \E k \in 1..Len(rels) : rels[k].name = name
            THEN <<>>
            ELSE LET rel == rels[CHOOSE k \in 1..Len(rels) : rels[k].name = name]
                     ids == LinkedIds(rel, obj.id)
                     selected == [k \in 1..Len(ids) |->
                                     SelectedObj(StoredObj(rel.schema, ids[k]),
                                                 rel.schema)]
                 IN selected \o
                    Flatten([k \in 1..Len(selected) |->
                                ResolveOverrun(graph, rel.schema, selected[k].obj,
                                    IF again THEN <<name>> ELSE Tail(inclusion),
                                    IF again THEN extra - 1 ELSE extra)])

get_related_overrun(graph, resource, obj, inclusion) ==
    ResolveOverrun(graph, resource, obj, inclusion, 1)

\* Mutant: an unknown name falls back to the first declared relationship.
RECURSIVE get_related_fallback(_, _, _, _)
get_related_fallback(graph, resource, obj, inclusion) ==
    IF inclusion = <<>> \/ graph[resource] = <<>> THEN <<>>
    ELSE LET rels == graph[resource]
             name == Head(inclusion)
             rel == IF \E k \in 1..Len(rels) : rels[k].name = name
                    THEN rels[CHOOSE k \in 1..Len(rels) : rels[k].name = name]
                    ELSE rels[1]
             ids == LinkedIds(rel, obj.id)
             selected == [k \in 1..Len(ids) |->
                             SelectedObj(StoredObj(rel.schema, ids[k]),
                                         rel.schema)]
         IN selected \o
            Flatten([k \in 1..Len(selected) |->
                        get_related_fallback(graph, rel.schema, selected[k].obj,
                                             Tail(inclusion))])

RECURSIVE get_related(_, _, _, _)
get_related(graph, resource, obj, inclusion) ==
    IF inclusion = <<>> THEN <<>>
    ELSE LET rels == graph[resource]
             name == Head(inclusion)
         IN IF ~ \E k \in 1..Len(rels) : rels[k].name = name
            THEN <<>>
            ELSE LET rel == rels[CHOOSE k \in 1..Len(rels) : rels[k].name = name]
                     ids == LinkedIds(rel, obj.id)
                     selected == [k \in 1..Len(ids) |->
                                     SelectedObj(StoredObj(rel.schema, ids[k]),
                                                 rel.schema)]
                 IN selected \o
                    Flatten([k \in 1..Len(selected) |->
                                get_related(graph, rel.schema, selected[k].obj,
                                            Tail(inclusion))])

-----------------------------------------------------------------------------
(* JSONAPIResourceRouter.build_response                                    *)

\* isinstance(rows, list): the argument is [list |-> TRUE, items |-> <<...>>]
\* or [list |-> FALSE, item |-> row].
IsList(arg) == arg.list

\* rows if isinstance(rows, list) else [rows]
AsList(arg) == IF IsList(arg) THEN arg.items ELSE <<arg.item>>

\* The key under which build_response stores a selected object.
IncludedKey(selected_obj) ==
    <<ResourceName(selected_obj.resource), selected_obj.obj.id>>

\* The JAResource build_response builds for a selected object.
IncludedResource(selected_obj) ==
    JAResource(selected_obj.obj.id, ResourceName(selected_obj.resource),
               from_orm(selected_obj.obj))

\* The loop of lines 123-131 over one get_related result.
RECURSIVE StoreSelected(_, _)
StoreSelected(d, objs) ==
    IF objs = <<>> THEN d
    ELSE StoreSelected(DictSet(d, IncludedKey(Head(objs)),
                               IncludedResource(Head(objs))),
                       Tail(objs))

\* Lines 133-135: one JAResource per row, in the order of the rows;
\* `attributes=row` is validated into the Read model of the resource.
PrimaryData(rowseq, resource) ==
    [i \in 1..Len(rowseq) |->
        JAResource(rowseq[i].id, ResourceName(resource), from_orm(rowseq[i]))]

\* Mutant: `many` taken from the number of rows, not from the argument's type.
ResponseSchema_bylength(is_many, data, d) ==
    [schema |-> IF Len(data) # 1 THEN "JAResponseList" ELSE "JAResponseSingle",
     data |-> IF Len(data) # 1 THEN data ELSE data[1],
     included |-> DictValues(d)]

\* Lines 136-142: the document returned.
ResponseSchema(is_many, data, d) ==
    [schema |-> IF is_many THEN "JAResponseList" ELSE "JAResponseSingle",
     data |-> IF is_many THEN data ELSE data[1],
     included |-> DictValues(d)]

\* History: the resource built from the last discovery of every key, as a
\* set of <<key, resource>> pairs.
RECURSIVE KeepLast(_, _)
KeepLast(pairs, objs) ==
    IF objs = <<>> THEN pairs
    ELSE KeepLast({p \in pairs : p[1] # IncludedKey(Head(objs))}
                      \cup {<<IncludedKey(Head(objs)),
                              IncludedResource(Head(objs))>>},
                  Tail(objs))

\* History: what a dict that kept the first value of every key would hold.
RECURSIVE KeepFirst(_, _)
KeepFirst(d, objs) ==
    IF objs = <<>> THEN d
    ELSE KeepFirst(IF IncludedKey(Head(objs)) \in DictKeys(d) THEN d
                   ELSE Append(d, [key |-> IncludedKey(Head(objs)),
                                   value |-> IncludedResource(Head(objs))]),
                   Tail(objs))

-----------------------------------------------------------------------------
(* Inputs.                                                                 *)

\* request.query_params: no include parameter, or one include string.
Requests == {{}} \cup {{<<"include", s>>} : s \in Strings}

\* Requests whose include string uses one name and the comma only: all an
\* arbitrary get_related can tell apart is how many paths there are.
PlainRequests ==
    {{}} \cup {{<<"include", s>>} : s \in {t \in Strings : Range(t) \subseteq {"a", ","}}}

\* Requests the boundary pattern lets through.
AcceptedRequests == {r \in Requests : include_query(QueryGet(r, "include"))}

\* Lists of rows with distinct ids, in any order.
RowIdSeqs ==
    {ids \in UNION {[1..n -> 1..MaxRows] : n \in 0..MaxRows} :
        \A i, j \in 1..Len(ids) : i # j => ids[i] # ids[j]}

\* The `rows` argument of build_response: one row, or a list of rows.
RowInputs ==
    {[list |-> TRUE,
      items |-> [i \in 1..Len(ids) |-> Row(RootSchema, ids[i], "v1")]] :
        ids \in RowIdSeqs}
    \cup {[list |-> FALSE, item |-> Row(RootSchema, id, "v1")] : id \in 1..MaxRows}

\* Relationship names: one-segment names over the word characters.
RelNames == {<<c>> : c \in WordChars}

\* Relationship graphs: up to MaxEdges declarations, a name declared once
\* per schema, each schema's dict in declaration order.
EdgeOptions ==
    [src : Schemas, name : RelNames, schema : Schemas, many : BOOLEAN]

EdgeSeqs ==
    {es \in UNION {[1..n -> EdgeOptions] : n \in 0..MaxEdges} :
        \A i, j \in 1..Len(es) :
            i # j => <<es[i].src, es[i].name>> # <<es[j].src, es[j].name>>}

GraphOf(es) ==
    [s \in Schemas |->
        LET FromS(e) == e.src = s
            own == SelectSeq(es, FromS)
        IN [k \in 1..Len(own) |->
               [name |-> own[k].name, schema |-> own[k].schema,
                many |-> own[k].many]]]

Graphs == {GraphOf(es) : es \in EdgeSeqs}

\* A resource without relationships.
NoRelationships == [s \in Schemas |-> <<>>]

\* What an arbitrary get_related may return: up to MaxSel selected objects
\* out of one author read with two different payloads, another author, and
\* a publisher with the id of the first author.
ArbitrarySelected ==
    {SelectedObj(Row("Author", 1, "v1"), "Author"),
     SelectedObj(Row("Author", 1, "v2"), "Author"),
     SelectedObj(Row("Author", 2, "v1"), "Author"),
     SelectedObj(Row("Publisher", 1, "v1"), "Publisher")}

ArbitraryResults == UNION {[1..n -> ArbitrarySelected] : n \in 0..MaxSel}

-----------------------------------------------------------------------------
(* The router at work.                                                     *)

Idle ==
    /\ inclusions = Unset
    /\ many = Unset
    /\ rowlist = Unset
    /\ ri = 0
    /\ ii = 0
    /\ included_resources = Unset
    /\ first_built = <<>>
    /\ last_built = {}
    /\ seen_again = FALSE
    /\ calls = 0
    /\ response = Unset

\* get_read_response_model / get_list_response_model at route registration:
\* the closure of the resource's relationships becomes the `included` type.
RegisterRoutes ==
    /\ pc = "registering"
    /\ included_schema' = get_included_schema(relationships, RootSchema)
    /\ pc' = "received"
    /\ UNCHANGED <<relationships, request, rows, inclusions, many, rowlist, ri,
                   ii, included_resources, first_built, last_built, seen_again,
                   calls, response>>

\* _retrieve/_list/_create/_update declare `include` with include_query:
\* a value that does not match is rejected before the handler runs.
ValidateInclude ==
    /\ pc = "received"
    /\ pc' = IF include_query(QueryGet(request, "include"))
             THEN "handler" ELSE "rejected"
    /\ UNCHANGED <<relationships, included_schema, request, rows, inclusions,
                   many, rowlist, ri, ii, included_resources, first_built,
                   last_built, seen_again, calls, response>>

\* get_resource(request): the resource carries the parsed inclusions.
GetResource ==
    /\ pc = "handler"
    /\ inclusions' = get_resource(request)
    /\ pc' = "resource"
    /\ UNCHANGED <<relationships, included_schema, request, rows, many,
                   rowlist, ri, ii, included_resources, first_built, last_built,
                   seen_again, calls, response>>

\* build_response, lines 114-117.
BuildResponseEnter ==
    /\ pc = "resource"
    /\ included_resources' = <<>>
    /\ many' = IsList(rows)
    /\ rowlist' = AsList(rows)
    /\ ri' = 1
    /\ ii' = 1
    /\ pc' = "build"
    /\ UNCHANGED <<relationships, included_schema, request, rows, inclusions,
                   first_built, last_built, seen_again, calls, response>>

\* The loops of lines 119-120 still have a (row, inclusion) pair to visit.
LoopPending == ri <= Len(rowlist) /\ ii <= Len(inclusions)

\* Lines 121-131 for the pair (rowlist[ri], inclusions[ii]) with `result`
\* as the value get_related returned.
ForInclusion(result) ==
    /\ pc = "build"
    /\ LoopPending
    /\ included_resources' = StoreSelected(included_resources, result)
    /\ first_built' = KeepFirst(first_built, result)
    /\ last_built' = KeepLast(last_built, result)
    /\ seen_again' = (seen_again \/ \E k \in 1..Len(result) :
                          IncludedKey(result[k]) \in DictKeys(first_built))
    /\ calls' = calls + 1
    /\ IF ii < Len(inclusions)
       THEN ii' = ii + 1 /\ ri' = ri
       ELSE ii' = 1 /\ ri' = ri + 1
    /\ UNCHANGED <<relationships, included_schema, request, rows, pc,
                   inclusions, many, rowlist, response>>

\* get_related is the stored-object collaborator.
ForInclusionStored ==
    ForInclusion(get_related(relationships, RootSchema, rowlist[ri],
                             inclusions[ii]))

\* get_related is any collaborator.
ForInclusionAny == \E result \in ArbitraryResults : ForInclusion(result)

\* Lines 133-142, once the loops are over.
BuildResponseReturn ==
    /\ pc = "build"
    /\ ~ LoopPending
    /\ response' = ResponseSchema(many, PrimaryData(rowlist, RootSchema),
                                  included_resources)
    /\ pc' = "done"
    /\ UNCHANGED <<relationships, included_schema, request, rows, inclusions,
                   many, rowlist, ri, ii, included_resources, first_built,
                   last_built, seen_again, calls>>

-----------------------------------------------------------------------------
(* Specifications.                                                         *)

\* Requests served with an arbitrary get_related.
Init ==
    /\ relationships = NoRelationships
    /\ included_schema = Unset
    /\ request \in PlainRequests
    /\ rows \in RowInputs
    /\ pc = "received"
    /\ Idle

Next ==
    \/ ValidateInclude
    \/ GetResource
    \/ BuildResponseEnter
    \/ ForInclusionAny
    \/ BuildResponseReturn

Spec == Init /\ [][Next]_vars

\* Route registration over every relationship graph.
InitRegister ==
    /\ relationships \in Graphs
    /\ included_schema = Unset
    /\ request = {}
    /\ rows = [list |-> TRUE, items |-> <<>>]
    /\ pc = "registering"
    /\ Idle

NextRegister == RegisterRoutes

SpecRegister == InitRegister /\ [][NextRegister]_vars

\* The boundary and the parser over every include string.
InitParse ==
    /\ relationships = NoRelationships
    /\ included_schema = Unset
    /\ request \in Requests
    /\ rows = [list |-> TRUE, items |-> <<>>]
    /\ pc = "received"
    /\ Idle

NextParse ==
    \/ ValidateInclude
    \/ GetResource

SpecParse == InitParse /\ [][NextParse]_vars

\* Relationship graphs in which every declaration is on a schema the
\* router's resource leads to.
RootedGraphs ==
    {g \in Graphs :
        \A s \in Schemas :
            g[s] # <<>> =>
                \/ s = RootSchema
                \/ \E k \in 1..Len(g[RootSchema]) : g[RootSchema][k].schema = s}

\* Accepted requests served from the stored objects of a relationship graph.
InitStored ==
    /\ relationships \in RootedGraphs
    /\ included_schema = Unset
    /\ request \in AcceptedRequests
    /\ rows \in RowInputs
    /\ pc = "registering"
    /\ Idle

NextStored ==
    \/ RegisterRoutes
    \/ ValidateInclude
    \/ GetResource
    \/ BuildResponseEnter
    \/ ForInclusionStored
    \/ BuildResponseReturn

SpecStored == InitStored /\ [][NextStored]_vars

-----------------------------------------------------------------------------
(* Properties.                                                             *)

Include == QueryGet(request, "include")

\* The resource object the specification gives for a primary row.
ResourceObject(row) ==
    [id |-> str(row.id), type |-> "post",
     attributes |-> [id |-> row.id, fields |-> row.fields]]

\* The (type, id) key of an entry of `included`.
EntryKey(entry) == <<entry.type, entry.id>>

\* The (type, id) key of a stored dict key.
StoredKey(key) == <<key[1], str(key[2])>>

\* path (',' path)* with path = segment ('.' segment)*, written out.
RECURSIVE JoinWith(_, _)
JoinWith(pieces, sep) ==
    IF Len(pieces) = 1 THEN pieces[1]
    ELSE (pieces[1] \o <<sep>>) \o JoinWith(Tail(pieces), sep)

(* C10: for every include string the boundary pattern accepts, get_resource *)
(* yields one path per comma-separated item in order, each the list of the *)
(* item's dot-separated segments, every segment a non-empty word; an       *)
(* absent include yields no paths.                                         *)
C10_ParsedPathsFollowGrammar ==
    pc = "resource" =>
        IF Include = None \/ Include = <<>>
        THEN inclusions = <<>>
        ELSE /\ Len(inclusions) >= 1
             /\ \A i \in 1..Len(inclusions) : Len(inclusions[i]) >= 1
             /\ JoinWith([i \in 1..Len(inclusions) |->
                             JoinWith(inclusions[i], ".")], ",") = Include
             /\ \A i \in 1..Len(inclusions) :
                    \A j \in 1..Len(inclusions[i]) :
                        /\ inclusions[i][j] # <<>>
                        /\ \A c \in Range(inclusions[i][j]) : c \in WordChars

\* The document the specification gives for the `rows` argument.
ExpectedData(arg) ==
    IF arg.list
    THEN [i \in 1..Len(arg.items) |-> ResourceObject(arg.items[i])]
    ELSE ResourceObject(arg.item)

(* C6: without an include parameter (or with an empty one) get_resource    *)
(* yields no inclusions, get_related is never called, `included` is the    *)
(* empty sequence, and `data` is the same one resource object per row that *)
(* any other inclusions give.                                              *)
C6_NoIncludeNoIncluded ==
    /\ get_resource({}) = <<>>
    /\ get_resource({<<"include", <<>>>>}) = <<>>
    /\ (pc \in {"resource", "build", "done"} /\ ~ Truthy(Include)) =>
           inclusions = <<>> /\ calls = 0
    /\ (pc = "done" /\ ~ Truthy(Include)) => response.included = <<>>
    /\ pc = "done" => response.data = ExpectedData(rows)

\* A request without include answered for a list of two rows.
C6_Witness ==
    /\ pc = "done"
    /\ request = {}
    /\ rows.list
    /\ Len(rows.items) = 2
    /\ calls = 0

(* C4: a single row gives the single-document shape with `data` the one    *)
(* resource object; a list of rows of any length (0 and 1 too) gives the   *)
(* list-document shape with one resource object per row in input order; an *)
(* empty list gives empty `data` and empty `included`.                     *)
C4_ShapeFollowsInput ==
    pc = "done" =>
        /\ ~ rows.list =>
               /\ response.schema = "JAResponseSingle"
               /\ response.data = ResourceObject(rows.item)
        /\ rows.list =>
               /\ response.schema = "JAResponseList"
               /\ Len(response.data) = Len(rows.items)
               /\ \A i \in 1..Len(rows.items) :
                      response.data[i] = ResourceObject(rows.items[i])
        /\ (rows.list /\ rows.items = <<>>) =>
               response.data = <<>> /\ response.included = <<>>

\* A list of exactly one row, answered with inclusions requested.
C4_Witness ==
    /\ pc = "done"
    /\ rows.list
    /\ Len(rows.items) = 1
    /\ calls > 0
    /\ response.schema = "JAResponseList"

(* C1: `included` holds at most one entry per key (type, id) and exactly   *)
(* one for every key get_related returned at least once, whatever the      *)
(* rows, the paths and the results; equal ids of different types are both  *)
(* kept.                                                                   *)
C1_OneEntryPerKey ==
    pc = "done" =>
        /\ \A i, j \in 1..Len(response.included) :
               EntryKey(response.included[i]) = EntryKey(response.included[j])
                   => i = j
        /\ {EntryKey(response.included[i]) : i \in 1..Len(response.included)}
               = {StoredKey(k) : k \in DictKeys(first_built)}

\* A key returned by two get_related calls, and two entries of different
\* types with the same id kept side by side.
C1_Witness ==
    /\ pc = "done"
    /\ seen_again
    /\ Len(response.included) = 2
    /\ response.included[1].id = response.included[2].id
    /\ response.included[1].type # response.included[2].type

(* C3 as stated: the entry kept for a key is the one built from its first  *)
(* discovery; later discoveries are discarded.                             *)
C3_FirstWriteWins ==
    pc = "done" => response.included = DictValues(first_built)

(* C3 amended: the entry kept for a key is the one built from its LAST     *)
(* discovery (every later discovery replaces the stored entry), and it     *)
(* stays at the place of the key's first discovery.                        *)
C3_LastWriteWinsInPlace ==
    pc = "done" =>
        /\ Len(response.included) = Len(first_built)
        /\ \A i \in 1..Len(first_built) :
               <<first_built[i].key, response.included[i]>> \in last_built

\* A response whose entry for a key is not the one first built for it.
C3_Witness ==
    /\ pc = "done"
    /\ seen_again
    /\ \E i \in 1..Len(response.included) :
           /\ response.included[i] # first_built[i].value
           /\ EntryKey(response.included[i]) = EntryKey(first_built[i].value)

-----------------------------------------------------------------------------
(* Properties of the schema closure and of stored-object resolution.       *)

\* The schemas a schema's relationships name, as a set and in dict order.
Targets(graph, s) == {graph[s][k].schema : k \in 1..Len(graph[s])}

TargetSeq(graph, s) == [k \in 1..Len(graph[s]) |-> graph[s][k].schema]

\* The schemas one or more relationship edges lead to from the root.
RECURSIVE ReachedWithin(_, _)
ReachedWithin(graph, n) ==
    IF n = 1 THEN Targets(graph, RootSchema)
    ELSE LET prev == ReachedWithin(graph, n - 1)
         IN prev \cup UNION {Targets(graph, s) : s \in prev}

ReachableFromRoot(graph) == ReachedWithin(graph, Cardinality(Schemas))

\* Depth-first first-discovered order, with an explicit stack.
RECURSIVE Preorder(_, _, _, _)
Preorder(graph, stack, seen, out) ==
    IF stack = <<>> THEN out
    ELSE IF Head(stack) \in seen THEN Preorder(graph, Tail(stack), seen, out)
    ELSE Preorder(graph, TargetSeq(graph, Head(stack)) \o Tail(stack),
                  seen \cup {Head(stack)}, Append(out, Head(stack)))

ClosureSchemas == [i \in 1..Len(included_schema.types) |->
                      included_schema.types[i].schema]

(* C2: on every finite relationship graph, cycles and self-references      *)
(* included, the closure walk terminates and returns every schema one or   *)
(* more edges away from the root exactly once, in depth-first              *)
(* first-discovered order.                                                 *)
C2_ClosureTerminatesExactlyOnce ==
    pc = "received" =>
        /\ ~ included_schema.raised
        /\ \A i, j \in 1..Len(ClosureSchemas) :
               ClosureSchemas[i] = ClosureSchemas[j] => i = j
        /\ Range(ClosureSchemas) = ReachableFromRoot(relationships)
        /\ ClosureSchemas
               = Preorder(relationships, TargetSeq(relationships, RootSchema),
                          {}, <<>>)

\* A cycle through the root: the root is in its own closure, after another.
C2_Witness ==
    /\ pc = "received"
    /\ Len(ClosureSchemas) = 2
    /\ ClosureSchemas[2] = RootSchema
    /\ RootSchema \in Targets(relationships, ClosureSchemas[1])

\* A self-reference: the root's only relationship names the root.
C2_WitnessSelf ==
    /\ pc = "received"
    /\ Targets(relationships, RootSchema) = {RootSchema}
    /\ ClosureSchemas = <<RootSchema>>

(* C9: the type of every entry of `included`, for every request and every  *)
(* graph, is one of the closure computed at registration, and that closure *)
(* is fixed by the graph alone: the types of the schemas reachable from    *)
(* the root, unchanged by any request.                                     *)
C9_ClosureCoversIncluded ==
    /\ pc # "registering" =>
           /\ ~ included_schema.raised
           /\ {included_schema.types[i].type :
                   i \in 1..Len(included_schema.types)}
                  = {ResourceName(s) : s \in ReachableFromRoot(relationships)}
    /\ pc = "done" =>
           \A i \in 1..Len(response.included) :
               \E j \in 1..Len(included_schema.types) :
                   response.included[i].type = included_schema.types[j].type

\* An included entry of a type the root has no direct relationship to.
C9_Witness ==
    /\ pc = "done"
    /\ \E i \in 1..Len(response.included) :
           \A s \in Targets(relationships, RootSchema) :
               response.included[i].type # ResourceName(s)

\* Stored objects as (schema, id) pairs, and the pair of an included entry.
ObjKey(schema, id) == <<ResourceName(schema), str(id)>>

RowObjs == {<<RootSchema, rowlist[i].id>> : i \in 1..Len(rowlist)}

\* The relationships of a schema that carry a name (none or one).
Named(graph, schema, name) ==
    {graph[schema][k] : k \in {m \in 1..Len(graph[schema]) :
                                   graph[schema][m].name = name}}

\* The objects a relationship leads to from an object.
LinkedObjs(rel, o) ==
    {<<rel.schema, LinkedIds(rel, o[2])[i]>> : i \in 1..Len(LinkedIds(rel, o[2]))}

\* One hop from a set of objects: along the relationship `name`, or along
\* any declared relationship.
HopNamed(graph, objs, name) ==
    UNION {UNION {LinkedObjs(rel, o) : rel \in Named(graph, o[1], name)} :
              o \in objs}

HopAny(graph, objs) ==
    UNION {UNION {LinkedObjs(rel, o) : rel \in Range(graph[o[1]])} : o \in objs}

\* The objects at the end of the first j segments of a path from a row.
RECURSIVE AlongPath(_, _, _, _)
AlongPath(graph, objs, path, j) ==
    IF j = 0 THEN objs
    ELSE HopNamed(graph, AlongPath(graph, objs, path, j - 1), path[j])

\* The objects exactly n relationship hops away from the rows.
RECURSIVE HopsFromRows(_, _)
HopsFromRows(graph, n) ==
    IF n = 0 THEN RowObjs ELSE HopAny(graph, HopsFromRows(graph, n - 1))

LongestPath ==
    IF inclusions = <<>> THEN 0
    ELSE CHOOSE n \in {Len(inclusions[i]) : i \in 1..Len(inclusions)} :
             \A i \in 1..Len(inclusions) : Len(inclusions[i]) <= n

IncludedKeys == {EntryKey(response.included[i]) : i \in 1..Len(response.included)}

(* C5: every entry of `included` is an object at the end of the first j    *)
(* segments of a requested path from a primary row, j at most the length   *)
(* of that path; so an object that is only k+1 or more hops away is never  *)
(* included unless a path of length k+1 or more was requested, cyclic      *)
(* graphs included.                                                        *)
C5_OnlyTheHopsOfThePath ==
    pc = "done" =>
        /\ \A key \in IncludedKeys :
               \E r \in RowObjs, i \in 1..Len(inclusions) :
                   \E j \in 1..Len(inclusions[i]) :
                       key \in {ObjKey(o[1], o[2]) :
                                   o \in AlongPath(relationships, {r},
                                                   inclusions[i], j)}
        /\ \A key \in IncludedKeys :
               \E n \in 1..LongestPath :
                   key \in {ObjKey(o[1], o[2]) :
                               o \in HopsFromRows(relationships, n)}

\* A cyclic graph, paths of one segment, and an object two hops away that
\* is left out while the object one hop away is included.
C5_Witness ==
    /\ pc = "done"
    /\ LongestPath = 1
    /\ response.included # <<>>
    /\ RootSchema \in ReachableFromRoot(relationships)
    /\ \E o \in HopsFromRows(relationships, 2) :
           /\ o \notin HopsFromRows(relationships, 1)
           /\ ObjKey(o[1], o[2]) \notin IncludedKeys

\* The names the root resource declares.
RootNames == {relationships[RootSchema][k].name :
                 k \in 1..Len(relationships[RootSchema])}

Discoveries ==
    Flatten([r \in 1..Len(rowlist) |->
        Flatten([i \in 1..Len(inclusions) |->
            get_related(relationships, RootSchema, rowlist[r], inclusions[i])])])

\* A sequence without the repetitions of earlier elements.
RECURSIVE FirstOccurrences(_)
FirstOccurrences(seq) ==
    IF seq = <<>> THEN <<>>
    ELSE LET front == FirstOccurrences(SubSeq(seq, 1, Len(seq) - 1))
             last == seq[Len(seq)]
         IN IF last \in Range(front) THEN front ELSE Append(front, last)

\* The to-one relationship `name` of a schema, if it declares one.
ToOne(graph, schema, name) ==
    {rel \in Named(graph, schema, name) : ~ rel.many}

(* C8: for one row and a path r1.r2 over to-one relationships, `included`  *)
(* holds the object a that r1 leads to and then the object b that r2 leads *)
(* to from a; in general the order of `included` is the order in which the *)
(* keys were first discovered (rows, then paths, then result order), a     *)
(* re-discovery not moving an entry.                                       *)
C8_NestedThenFirstDiscoveredOrder ==
    pc = "done" =>
        /\ [i \in 1..Len(response.included) |-> EntryKey(response.included[i])]
               = FirstOccurrences([k \in 1..Len(Discoveries) |->
                                      StoredKey(IncludedKey(Discoveries[k]))])
        /\ (~ rows.list /\ Len(inclusions) = 1 /\ Len(inclusions[1]) = 2) =>
               \A r1 \in ToOne(relationships, RootSchema, inclusions[1][1]) :
                   \A r2 \in ToOne(relationships, r1.schema, inclusions[1][2]) :
                       LET a == [id |-> str(rows.item.id),
                                 type |-> ResourceName(r1.schema),
                                 attributes |-> [id |-> rows.item.id,
                                                 fields |-> "v1"]]
                           b == [id |-> str(rows.item.id),
                                 type |-> ResourceName(r2.schema),
                                 attributes |-> [id |-> rows.item.id,
                                                 fields |-> "v1"]]
                       IN response.included = IF a = b THEN <<a>> ELSE <<a, b>>

\* include=a.b over post -> author -> publisher for one row.
C8_Witness ==
    /\ pc = "done"
    /\ ~ rows.list
    /\ Len(inclusions) = 1
    /\ Len(inclusions[1]) = 2
    /\ Len(response.included) = 2
    /\ response.included[1].type = "author"
    /\ response.included[2].type = "publisher"
    /\ \E r1 \in ToOne(relationships, RootSchema, inclusions[1][1]) :
           ToOne(relationships, r1.schema, inclusions[1][2]) # {}

====
